---- MODULE Spec2Model ----
(***************************************************************************)
(* Sponsorship authorization protocol of the paymaster service:           *)
(* the paymaster contracts (contracts/SignatureVerifyingPaymasterV07.sol, *)
(* contracts/SSVPaymaster.sol), the signing backend (src/relay.ts) and    *)
(* the entry point that calls the paymaster.                              *)
(*                                                                         *)
(* The source holds several generations of the contract; the variable     *)
(* `revision` says which one is deployed in a behaviour:                  *)
(*   "legacy" SSVPaymaster.sol:75-283  (plain digest, timestamp adjust)   *)
(*   "v07"    SignatureVerifyingPaymasterV07.sol:21-271                   *)
(*   "v08"    SignatureVerifyingPaymasterV07.sol:293-525                  *)
(*   "mps"    SSVPaymaster.sol:12-55   (MyPaymasterSigner)                *)
(*                                                                         *)
(* Modelling conventions                                                   *)
(*  - addresses and hashes are small integers; keccak256 is injective and *)
(*    is modelled by the tuple of the abi-encoded words it is applied to; *)
(*  - a byte is a pair <<tag, v>>: <<0, v>> is the concrete byte v,       *)
(*    <<1, i>> is the i-th byte of the signature held in `auth`, and      *)
(*    <<2, i>> is a byte of a byte string nobody signed;                  *)
(*  - a hex digit is a pair of the same shape (<<0, d>> with d in 0..15,  *)
(*    <<1, j>> the j-th hex digit of the signature);                      *)
(*  - amounts of wei are counted in units of 0.005 ether.                 *)
(***************************************************************************)
EXTENDS Integers, Sequences, FiniteSets, TLC

\* ---------------------------------------------------------------- bounds
MaxTicks == 1      \* clock advances per behaviour
MaxNonce == 2      \* account nonces 0..MaxNonce
MaxCost == 1       \* requested cost 0..MaxCost
MaxDeposit == 1    \* deposit 0..MaxDeposit

\* ------------------------------------------------------------ identities
Owner == 1
Stranger == 2
TrustedSigner == 3
InvalidSigner == 4
Paymaster == 5
Account == 7
Garbage == 9       \* what ecrecover yields for a digest that was not signed
ZeroAddress == 0

ChainId == 8453

Callers == {Owner, Stranger}
SignerKeys == {TrustedSigner, InvalidSigner}
CallDatas == {1, 2}

\* ----------------------------------------------------- bytes and hex text
SigLen == 65                    \* length of an ECDSA signature (r, s, v)
PAYMASTER_DATA_OFFSET == 52     \* UserOperationLib: address 20 + two uint128

Min(a, b) == IF a < b THEN a ELSE b

\* data[from:to) of a calldata byte string, 0-based as in Solidity
Slice(data, from, to) == SubSeq(data, from + 1, to)

\* Number.prototype.toString(16) of a non-negative integer
RECURSIVE HexDigits(_)
HexDigits(n) ==
    IF n < 16 THEN << <<0, n>> >>
    ELSE HexDigits(n \div 16) \o << <<0, n % 16>> >>

\* String.prototype.padStart(width, '0')
PadStart(s, width) ==
    IF Len(s) >= width THEN s
    ELSE [i \in 1..(width - Len(s)) |-> <<0, 0>>] \o s

\* the hex text of the signature in `auth` (without the leading 0x)
SignedSigHex == [j \in 1..(2 * SigLen) |-> <<1, j>>]
\* the bytes of that signature
SignedSigBytes == [i \in 1..SigLen |-> <<1, i>>]
\* 65 bytes that no key holder produced
JunkSigBytes == [i \in 1..SigLen |-> <<2, i>>]

\* one byte from two hex digits
HexPair(h, l) ==
    IF h[1] = 0 /\ l[1] = 0 THEN <<0, 16 * h[2] + l[2]>>
    ELSE IF h[1] = l[1] /\ h[2] % 2 = 1 /\ l[2] = h[2] + 1
         THEN <<h[1], (h[2] + 1) \div 2>>
         ELSE <<2, 0>>

\* viem hexToBytes on the digits after 0x (even length)
hexToBytes(hex) == [i \in 1..(Len(hex) \div 2) |-> HexPair(hex[2 * i - 1], hex[2 * i])]

\* uint48(bytes6(b)): big-endian value of six bytes
RECURSIVE BigEndian(_)
BigEndian(b) ==
    IF Len(b) = 0 THEN 0
    ELSE 256 * BigEndian(SubSeq(b, 1, Len(b) - 1)) + b[Len(b)][2]

\* variant: the encoder writes validAfter before validUntil
createPaymasterDataAfterFirst(validUntil, validAfter, signatureHex) ==
    LET validUntilHex == PadStart(HexDigits(validUntil), 12)
        validAfterHex == PadStart(HexDigits(validAfter), 12)
    IN validAfterHex \o validUntilHex \o signatureHex

\* relay.ts createPaymasterData (v0.7 backend): validUntil first
createPaymasterData(validUntil, validAfter, signatureHex) ==
    LET validUntilHex == PadStart(HexDigits(validUntil), 12)
        validAfterHex == PadStart(HexDigits(validAfter), 12)
    IN validUntilHex \o validAfterHex \o signatureHex

\* relay.ts createPaymasterData (v0.8 backend): validAfter first
createPaymasterDataV08(validAfter, validUntil, signatureHex) ==
    LET validAfterHex == PadStart(HexDigits(validAfter), 12)
        validUntilHex == PadStart(HexDigits(validUntil), 12)
    IN validAfterHex \o validUntilHex \o signatureHex

\* variant: the decoder does not check the length of the signature slice
parseWithoutSignatureLength(paymasterData) ==
    IF Len(paymasterData) < 77
    THEN [err |-> "InvalidPaymasterData", validUntil |-> 0, validAfter |-> 0,
          signature |-> <<>>]
    ELSE [err |-> "none", validUntil |-> BigEndian(Slice(paymasterData, 0, 6)),
          validAfter |-> BigEndian(Slice(paymasterData, 6, 12)),
          signature |-> Slice(paymasterData, 12, Len(paymasterData))]

\* parsePaymasterData: the same code in all three contract generations
parsePaymasterData(paymasterData) ==
    IF Len(paymasterData) < 77
    THEN [err |-> "InvalidPaymasterData", validUntil |-> 0, validAfter |-> 0,
          signature |-> <<>>]
    ELSE LET validUntil == BigEndian(Slice(paymasterData, 0, 6))
             validAfter == BigEndian(Slice(paymasterData, 6, 12))
             signature == Slice(paymasterData, 12, Len(paymasterData))
         IN IF Len(signature) # 65
            THEN [err |-> "InvalidSignatureLength", validUntil |-> validUntil,
                  validAfter |-> validAfter, signature |-> signature]
            ELSE [err |-> "none", validUntil |-> validUntil,
                  validAfter |-> validAfter, signature |-> signature]

\* --------------------------------------------------------------- digests
\* keccak256(userOp.callData)
keccak256(callData) == 100 + callData

\* MessageHashUtils.toEthSignedMessageHash: "\x19Ethereum Signed Message:\n32" prefix
toEthSignedMessageHash(hash) ==
    [wrap |-> "eip191", name |-> "", version |-> "", chainId |-> 0,
     verifyingContract |-> 0, typeTag |-> "", words |-> hash]

\* EIP-712: keccak256("\x19\x01" || domainSeparator || structHash)
hashTypedData(name, version, chainId, verifyingContract, typeTag, words) ==
    [wrap |-> "eip712", name |-> name, version |-> version, chainId |-> chainId,
     verifyingContract |-> verifyingContract, typeTag |-> typeTag, words |-> words]

NoDigest == toEthSignedMessageHash(<<>>)

\* SSVPaymaster.sol getHash (plain scheme)
getHashLegacy(validUntil, validAfter, paymasterAddress, senderAddress) ==
    <<validUntil, validAfter, ChainId, paymasterAddress, senderAddress>>

\* variant: the digest leaves the nonce out, as the plain scheme does
getHashWithoutNonce(validUntil, validAfter, paymasterAddress, senderAddress, nonce, calldataHash) ==
    <<validUntil, validAfter, ChainId, paymasterAddress, senderAddress, calldataHash>>

\* SignatureVerifyingPaymasterV07.getHash
getHashV07(validUntil, validAfter, paymasterAddress, senderAddress, nonce, calldataHash) ==
    <<validUntil, validAfter, ChainId, paymasterAddress, senderAddress, nonce, calldataHash>>

\* SignatureVerifyingPaymasterV08.getHash
getHashV08(validUntil, validAfter, senderAddress, nonce, callDataHash) ==
    <<validUntil, validAfter, senderAddress, nonce, callDataHash>>

\* SignatureVerifyingPaymasterV08: __EIP712_init(name, version) and _hashTypedDataV4
hashTypedDataV4(dataHash) ==
    hashTypedData("SignatureVerifyingPaymasterV08", "1", ChainId, Paymaster, "", dataHash)

\* relay.ts
PAYMASTER_VERSION == "4"
PaymasterDataType ==
    "PaymasterData(uint48 validUntil,uint48 validAfter,address sender,uint256 nonce,bytes32 calldataHash)"

\* relay.ts generateEIP712Signature: the typed data the trusted signer signs
relayTypedData(chainId, paymasterAddress, validUntil, validAfter, senderAddress, nonce, calldataHash) ==
    hashTypedData("SignatureVerifyingPaymaster", PAYMASTER_VERSION, chainId, paymasterAddress,
                  PaymasterDataType,
                  <<validUntil, validAfter, senderAddress, nonce, calldataHash>>)

\* the digest the deployed contract rebuilds for an operation and a window
ContractDigest(rev, validUntil, validAfter, sender, nonce, callData) ==
    CASE rev = "legacy" ->
           toEthSignedMessageHash(getHashLegacy(validUntil, validAfter, Paymaster, sender))
      [] rev = "v07" ->
           toEthSignedMessageHash(
               getHashV07(validUntil, validAfter, Paymaster, sender, nonce, keccak256(callData)))
      [] rev = "v08" ->
           hashTypedDataV4(getHashV08(validUntil, validAfter, sender, nonce, keccak256(callData)))
      [] OTHER -> NoDigest

\* --------------------------------------- digests, environment as arguments
\* getHash and _hashTypedDataV4 read block.chainid, address(this) and the EIP-712
\* version of the instance; here these are arguments.
getHashLegacyAt(chainid, validUntil, validAfter, paymasterAddress, senderAddress) ==
    <<validUntil, validAfter, chainid, paymasterAddress, senderAddress>>

getHashV07At(chainid, validUntil, validAfter, paymasterAddress, senderAddress, nonce, calldataHash) ==
    <<validUntil, validAfter, chainid, paymasterAddress, senderAddress, nonce, calldataHash>>

hashTypedDataV4At(version, chainid, self, dataHash) ==
    hashTypedData("SignatureVerifyingPaymasterV08", version, chainid, self, "", dataHash)

\* the digest the contract at address self on chain chainid rebuilds; the V07
\* contract's VERSION constant and the plain-scheme contract's are not hashed
ContractDigestAt(rev, version, chainid, self, validUntil, validAfter, sender, nonce, callData) ==
    CASE rev = "legacy" ->
           toEthSignedMessageHash(getHashLegacyAt(chainid, validUntil, validAfter, self, sender))
      [] rev = "v07" ->
           toEthSignedMessageHash(
               getHashV07At(chainid, validUntil, validAfter, self, sender, nonce,
                            keccak256(callData)))
      [] rev = "v08" ->
           hashTypedDataV4At(version, chainid, self,
                             getHashV08(validUntil, validAfter, sender, nonce,
                                        keccak256(callData)))
      [] OTHER -> NoDigest

\* ECDSA.recover(digest, signature).  sig is the signature the bytes stand for
\* ([key, digest], key = ZeroAddress when nobody signed them); for bytes nobody
\* signed the library either reverts or returns an unrelated address (junk).
recover(digest, signature, sig, junk) ==
    IF signature = SignedSigBytes /\ sig.key # ZeroAddress
    THEN [reverted |-> FALSE,
          addr |-> IF sig.digest = digest THEN sig.key ELSE Garbage]
    ELSE [reverted |-> (junk = "revert"), addr |-> Garbage]

\* ---- _packValidationData at the level of bits: a uint256 is sixteen 16-bit
\* limbs, limb i holding bits 16 i .. 16 i + 15; a uint48 is three limbs,
\* least significant first
Uint48Limbs(v) == << v % 65536, (v \div 65536) % 65536, 0 >>

\* uint256(x) of a uint48
Uint256Of48(limbs) == [i \in 0..15 |-> IF i < 3 THEN limbs[i + 1] ELSE 0]

\* x << bits for a multiple of 16; bits shifted beyond bit 255 are lost
ShiftLeft(word, bits) ==
    LET k == bits \div 16
    IN [i \in 0..15 |-> IF i >= k THEN word[i - k] ELSE 0]

RECURSIVE BitOr16(_, _)
BitOr16(a, b) ==
    IF a = 0 THEN b
    ELSE IF b = 0 THEN a
    ELSE (IF a % 2 = 1 \/ b % 2 = 1 THEN 1 ELSE 0) + 2 * BitOr16(a \div 2, b \div 2)

\* x | y
Or256(x, y) == [i \in 0..15 |-> BitOr16(x[i], y[i])]

\* variant: validAfter is shifted by 192 bits and overlaps validUntil
packValidationDataWordOverlapping(sigFailed, validUntil, validAfter) ==
    Or256(Or256(Uint256Of48(<< IF sigFailed THEN 1 ELSE 0, 0, 0 >>),
                ShiftLeft(Uint256Of48(validUntil), 160)),
          ShiftLeft(Uint256Of48(validAfter), 192))

\* _packValidationData: (sigFailed ? 1 : 0) | (uint256(validUntil) << 160)
\*                                          | (uint256(validAfter) << 208)
packValidationDataWord(sigFailed, validUntil, validAfter) ==
    Or256(Or256(Uint256Of48(<< IF sigFailed THEN 1 ELSE 0, 0, 0 >>),
                ShiftLeft(Uint256Of48(validUntil), 160)),
          ShiftLeft(Uint256Of48(validAfter), 208))

\* variant: the two timestamps are packed into each other's bit range
packValidationDataSwapped(sigFailed, validUntil, validAfter) ==
    [sigFailed |-> sigFailed, validUntil |-> validAfter, validAfter |-> validUntil]

\* _packValidationData: sigFailed in bit 0, validUntil from bit 160, validAfter from bit 208
packValidationData(sigFailed, validUntil, validAfter) ==
    [sigFailed |-> sigFailed, validUntil |-> validUntil, validAfter |-> validAfter]

\* ------------------------------------------------------------ validation
DefaultMaxAllowedGasCost == 2   \* 0.01 ether
DefaultCallGasLimit == 0        \* 1000000000000 wei, below one unit
MaxGasCostCeiling == 200        \* 1 ether

NoValidationData == packValidationData(FALSE, 0, 0)
NoContext == 0 - 1              \* the empty context ""

\* a revert of validatePaymasterUserOp
Abort(outcome, err) ==
    [outcome |-> outcome, err |-> err, returned |-> FALSE,
     validationData |-> NoValidationData, context |-> NoContext,
     decodedUntil |-> 0, decodedAfter |-> 0]

\* a normal return of validatePaymasterUserOp
Return(outcome, context, validationData, p) ==
    [outcome |-> outcome, err |-> "none", returned |-> TRUE,
     validationData |-> validationData, context |-> context,
     decodedUntil |-> p.validUntil, decodedAfter |-> p.validAfter]

\* userOp.paymasterAndData[PAYMASTER_DATA_OFFSET:]
PaymasterDataOf(paymasterAndData) ==
    Slice(paymasterAndData, PAYMASTER_DATA_OFFSET, Len(paymasterAndData))

\* variant: the cost cap is checked before the signature, as in the v08 contract
validateCostFirst(userOp, maxCost, cfg, sig, junk) ==
    LET p == parsePaymasterData(PaymasterDataOf(userOp.paymasterAndData))
        hash == <<p.validUntil, p.validAfter, ChainId, Paymaster, userOp.sender,
                  userOp.nonce, keccak256(userOp.callData)>>
        recovered == recover(toEthSignedMessageHash(hash), p.signature, sig, junk)
    IN IF p.err # "none" THEN Abort("Malformed", p.err)
       ELSE IF maxCost > cfg.maxAllowedGasCost THEN Abort("CostExceeded", "GasCostTooHigh")
       ELSE IF recovered.reverted THEN Abort("InvalidSignature", "ECDSAInvalidSignature")
       ELSE IF recovered.addr # cfg.verifyingSigner
            THEN Return("SignatureRejected", NoContext,
                        packValidationData(TRUE, p.validUntil, p.validAfter), p)
       ELSE Return("Accepted", maxCost,
                   packValidationData(FALSE, p.validUntil, p.validAfter), p)

\* variant: the cost cap compares with >= and so refuses a cost equal to the cap
validateCapExclusive(userOp, maxCost, cfg, sig, junk) ==
    LET p == parsePaymasterData(PaymasterDataOf(userOp.paymasterAndData))
        hash == <<p.validUntil, p.validAfter, ChainId, Paymaster, userOp.sender,
                  userOp.nonce, keccak256(userOp.callData)>>
        recovered == recover(toEthSignedMessageHash(hash), p.signature, sig, junk)
    IN IF p.err # "none" THEN Abort("Malformed", p.err)
       ELSE IF recovered.reverted THEN Abort("InvalidSignature", "ECDSAInvalidSignature")
       ELSE IF recovered.addr # cfg.verifyingSigner
            THEN Return("SignatureRejected", NoContext,
                        packValidationData(TRUE, p.validUntil, p.validAfter), p)
       ELSE IF maxCost >= cfg.maxAllowedGasCost THEN Abort("CostExceeded", "GasCostTooHigh")
       ELSE Return("Accepted", maxCost,
                   packValidationData(FALSE, p.validUntil, p.validAfter), p)

\* variant: the signer is read from the current Config, the cap is the one from
\* before the owner's update
validateStaleCap(userOp, maxCost, cfg, sig, junk) ==
    LET p == parsePaymasterData(PaymasterDataOf(userOp.paymasterAndData))
        hash == <<p.validUntil, p.validAfter, ChainId, Paymaster, userOp.sender,
                  userOp.nonce, keccak256(userOp.callData)>>
        recovered == recover(toEthSignedMessageHash(hash), p.signature, sig, junk)
    IN IF p.err # "none" THEN Abort("Malformed", p.err)
       ELSE IF recovered.reverted THEN Abort("InvalidSignature", "ECDSAInvalidSignature")
       ELSE IF recovered.addr # cfg.verifyingSigner
            THEN Return("SignatureRejected", NoContext,
                        packValidationData(TRUE, p.validUntil, p.validAfter), p)
       ELSE IF maxCost > DefaultMaxAllowedGasCost THEN Abort("CostExceeded", "GasCostTooHigh")
       ELSE Return("Accepted", maxCost,
                   packValidationData(FALSE, p.validUntil, p.validAfter), p)

\* variant: the recovered address is compared with the signer set at initialization
validateInitialSigner(userOp, maxCost, cfg, sig, junk) ==
    LET p == parsePaymasterData(PaymasterDataOf(userOp.paymasterAndData))
        hash == <<p.validUntil, p.validAfter, ChainId, Paymaster, userOp.sender,
                  userOp.nonce, keccak256(userOp.callData)>>
        recovered == recover(toEthSignedMessageHash(hash), p.signature, sig, junk)
    IN IF p.err # "none" THEN Abort("Malformed", p.err)
       ELSE IF recovered.reverted THEN Abort("InvalidSignature", "ECDSAInvalidSignature")
       ELSE IF recovered.addr # TrustedSigner
            THEN Return("SignatureRejected", NoContext,
                        packValidationData(TRUE, p.validUntil, p.validAfter), p)
       ELSE IF maxCost > cfg.maxAllowedGasCost THEN Abort("CostExceeded", "GasCostTooHigh")
       ELSE Return("Accepted", maxCost,
                   packValidationData(FALSE, p.validUntil, p.validAfter), p)

\* SignatureVerifyingPaymasterV07._validatePaymasterUserOp
validateV07(userOp, maxCost, cfg, sig, junk) ==
    LET p == parsePaymasterData(PaymasterDataOf(userOp.paymasterAndData))
        calldataHash == keccak256(userOp.callData)
        hash == getHashV07(p.validUntil, p.validAfter, Paymaster, userOp.sender,
                           userOp.nonce, calldataHash)
        ethSignedHash == toEthSignedMessageHash(hash)
        recovered == recover(ethSignedHash, p.signature, sig, junk)
    IN IF p.err # "none" THEN Abort("Malformed", p.err)
       ELSE IF recovered.reverted THEN Abort("InvalidSignature", "ECDSAInvalidSignature")
       ELSE IF recovered.addr # cfg.verifyingSigner
            THEN Return("SignatureRejected", NoContext,
                        packValidationData(TRUE, p.validUntil, p.validAfter), p)
       ELSE IF maxCost > cfg.maxAllowedGasCost THEN Abort("CostExceeded", "GasCostTooHigh")
       ELSE Return("Accepted", maxCost,
                   packValidationData(FALSE, p.validUntil, p.validAfter), p)

\* SignatureVerifyingPaymasterV08._validatePaymasterUserOp
validateV08(userOp, maxCost, cfg, sig, junk) ==
    LET p == parsePaymasterData(PaymasterDataOf(userOp.paymasterAndData))
        callDataHash == keccak256(userOp.callData)
        dataHash == getHashV08(p.validUntil, p.validAfter, userOp.sender, userOp.nonce,
                               callDataHash)
        typedDataHash == hashTypedDataV4(dataHash)
        recovered == recover(typedDataHash, p.signature, sig, junk)
    IN IF maxCost > cfg.maxAllowedGasCost THEN Abort("CostExceeded", "GasCostTooHigh")
       ELSE IF p.err # "none" THEN Abort("Malformed", p.err)
       ELSE IF recovered.reverted THEN Abort("InvalidSignature", "ECDSAInvalidSignature")
       ELSE IF recovered.addr # cfg.verifyingSigner
            THEN Return("SignatureRejected", NoContext,
                        packValidationData(TRUE, p.validUntil, p.validAfter), p)
       ELSE Return("Accepted", maxCost,
                   packValidationData(FALSE, p.validUntil, p.validAfter), p)

\* SSVPaymaster.sol: expired validUntil is extended by an hour
adjustValidUntil(validUntil, now48) ==
    IF validUntil <= now48 \/ validUntil < now48 + 60 THEN now48 + 3600 ELSE validUntil

\* SSVPaymaster.sol: a validAfter in the future is moved a minute into the past
adjustValidAfter(validAfter, now48) ==
    IF validAfter > now48 THEN (IF now48 > 60 THEN now48 - 60 ELSE 0) ELSE validAfter

\* SSVPaymaster.sol SignatureVerifyingPaymasterV07._validatePaymasterUserOp
validateLegacy(userOp, maxCost, cfg, sig, junk, timestamp, depositInfo) ==
    LET p == parsePaymasterData(PaymasterDataOf(userOp.paymasterAndData))
        hash == getHashLegacy(p.validUntil, p.validAfter, Paymaster, userOp.sender)
        ethSignedHash == toEthSignedMessageHash(hash)
        recovered == recover(ethSignedHash, p.signature, sig, junk)
        now48 == timestamp
    IN IF ~(depositInfo >= maxCost) THEN Abort("DepositTooLow", "deposit too low")
       ELSE IF p.err # "none" THEN Abort("Malformed", p.err)
       ELSE IF recovered.reverted THEN Abort("InvalidSignature", "ECDSAInvalidSignature")
       ELSE IF recovered.addr # cfg.verifyingSigner
            THEN Return("SignatureRejected", NoContext,
                        packValidationData(TRUE, p.validUntil, p.validAfter), p)
       ELSE Return("Accepted", maxCost,
                   packValidationData(FALSE, adjustValidUntil(p.validUntil, now48),
                                      adjustValidAfter(p.validAfter, now48)), p)

\* validatePaymasterUserOp of the deployed generation
validate(rev, userOp, maxCost, cfg, sig, junk, timestamp, depositInfo) ==
    CASE rev = "legacy" -> validateLegacy(userOp, maxCost, cfg, sig, junk, timestamp, depositInfo)
      [] rev = "v07" -> validateV07(userOp, maxCost, cfg, sig, junk)
      [] rev = "v08" -> validateV08(userOp, maxCost, cfg, sig, junk)

\* ----------------------------------------------------------------- state
VARIABLES
    revision,           \* the deployed contract generation
    owner,              \* Ownable owner
    verifyingSigner,    \* address authorized to sign approvals
    maxAllowedGasCost,  \* cost cap (v08: callGasLimit; legacy has none)
    now,                \* block.timestamp / Date.now() in seconds
    ticks,              \* clock advances so far
    nonce,              \* entry point nonce of the account
    userCalls,          \* TargetExecuteContract.userCalls(account)
    deposit,            \* the paymaster's deposit at the entry point
    auth,               \* the authorization most recently signed (or the error response)
    initialized,        \* Initializable: initialize has run on this instance
    beneficiaryBalance, \* ether balance of the withdrawal beneficiary
    routeCalls          \* calls made by the POST /rpc route for the latest request

vars == <<revision, owner, verifyingSigner, maxAllowedGasCost, now, ticks, nonce,
          userCalls, deposit, auth, initialized, beneficiaryBalance, routeCalls>>

Revisions == {"legacy", "v07", "v08", "mps"}
ValidatingRevisions == {"legacy", "v07", "v08"}

StartTime == 1000
TickSteps == {1, 3600}

NoAuth ==
    [key |-> ZeroAddress, scheme |-> "none", digest |-> NoDigest, validUntil |-> 0,
     validAfter |-> 0, sender |-> ZeroAddress, nonce |-> 0, callData |-> 0,
     paymasterData |-> <<>>, sponsored |-> 0]

Config == [owner |-> owner, verifyingSigner |-> verifyingSigner,
           maxAllowedGasCost |-> maxAllowedGasCost]

Init ==
    /\ revision \in Revisions
    /\ owner = Owner
    /\ verifyingSigner = TrustedSigner
    /\ maxAllowedGasCost = CASE revision = "v08" -> DefaultCallGasLimit
                             [] revision = "legacy" -> 0
                             [] OTHER -> DefaultMaxAllowedGasCost
    /\ now = StartTime
    /\ ticks = 0
    /\ nonce = 0
    /\ userCalls = 0
    /\ deposit = MaxDeposit
    /\ auth = NoAuth
    /\ initialized = TRUE
    /\ beneficiaryBalance = 0
    /\ routeCalls = << >>

\* ------------------------------------------------------------------ clock
Tick(d) ==
    /\ ticks < MaxTicks
    /\ now' = now + d
    /\ ticks' = ticks + 1
    /\ UNCHANGED <<routeCalls, initialized, beneficiaryBalance, revision, owner, verifyingSigner, maxAllowedGasCost, nonce, userCalls,
                   deposit, auth>>

\* ---------------------------------------------------------------- signing
Signed(key, scheme, digest, validUntil, validAfter, sender, opNonce, callData) ==
    [key |-> key, scheme |-> scheme, digest |-> digest, validUntil |-> validUntil,
     validAfter |-> validAfter, sender |-> sender, nonce |-> opNonce, callData |-> callData,
     paymasterData |-> hexToBytes(createPaymasterData(validUntil, validAfter, SignedSigHex)),
     sponsored |-> 0]

\* relay.ts handleSbcMethodV07: the backend signs typed data with the trusted signer's key
\* for the user operation it was sent
RelaySign(opNonce, callData) ==
    LET currentTimestamp == now
        validAfter == currentTimestamp - 10
        validUntil == currentTimestamp + 3600
        calldataHash == keccak256(callData)
        digest == relayTypedData(ChainId, Paymaster, validUntil, validAfter, Account,
                                 opNonce, calldataHash)
    IN /\ revision \in ValidatingRevisions
       /\ auth' = Signed(TrustedSigner, "relay", digest, validUntil, validAfter, Account,
                         opNonce, callData)
          /\ UNCHANGED <<routeCalls, initialized, beneficiaryBalance, revision, owner, verifyingSigner, maxAllowedGasCost, now, ticks,
                      nonce, userCalls, deposit>>

\* a key holder signs the digest the deployed contract computes (its public getHash),
\* as the Foundry test harness and the plain-scheme backend do
DirectSign(key, validUntil, validAfter, opNonce, callData) ==
    /\ revision \in ValidatingRevisions
    /\ auth' = Signed(key, "contract",
                      ContractDigest(revision, validUntil, validAfter, Account, opNonce, callData),
                      validUntil, validAfter, Account, opNonce, callData)
    /\ UNCHANGED <<routeCalls, initialized, beneficiaryBalance, revision, owner, verifyingSigner, maxAllowedGasCost, now, ticks,
                   nonce, userCalls, deposit>>

\* ------------------------------------------------------------ entry point
\* the first PAYMASTER_DATA_OFFSET bytes: paymaster address and two gas limits
PaymasterPrefix == [i \in 1..PAYMASTER_DATA_OFFSET |-> <<0, IF i <= 20 THEN Paymaster ELSE 0>>]

TruncLen == 50
\* the paymasterData a caller may attach, made from the authorization in `auth`
Variants == {"asIssued", "truncated", "extended", "junkSig", "rewindowed"}

PaymasterDataFor(variant) ==
    CASE variant = "asIssued" -> auth.paymasterData
      [] variant = "truncated" ->
           SubSeq(auth.paymasterData, 1, Min(TruncLen, Len(auth.paymasterData)))
      [] variant = "extended" -> auth.paymasterData \o << <<2, 0>> >>
      [] variant = "junkSig" ->
           hexToBytes(createPaymasterData(auth.validUntil, auth.validAfter, <<>>))
               \o JunkSigBytes
      [] variant = "rewindowed" ->
           hexToBytes(createPaymasterData(auth.validUntil + 3600, auth.validAfter,
                                          SignedSigHex))

\* the operation submitted: the account, a nonce, a call payload and paymasterAndData
UserOp(opNonce, callData, variant) ==
    [sender |-> Account, nonce |-> opNonce, callData |-> callData,
     paymasterAndData |-> PaymasterPrefix \o PaymasterDataFor(variant)]

\* what validatePaymasterUserOp does in the current state when the entry point calls it;
\* the entry point has debited the prefund from the deposit before the call
ValidateCall(opNonce, callData, maxCost, variant, junk) ==
    validate(revision, UserOp(opNonce, callData, variant), maxCost, Config,
             [key |-> auth.key, digest |-> auth.digest], junk, now, deposit - maxCost)

\* the entry point's check of the returned window against block.timestamp
OutOfTimeRange(validationData, timestamp) ==
    \/ validationData.validUntil <= timestamp
    \/ validationData.validAfter > timestamp

\* the outcome of EntryPoint.handleOps for one operation of the account
HandleOpsStatus(callData, maxCost, variant, junk) ==
    LET v == ValidateCall(nonce, callData, maxCost, variant, junk)
    IN IF deposit < maxCost THEN "AA31 paymaster deposit too low"
       ELSE IF ~v.returned THEN "AA33 reverted"
       ELSE IF v.validationData.sigFailed THEN "AA34 signature error"
       ELSE IF OutOfTimeRange(v.validationData, now) THEN "AA32 paymaster expired or not due"
       ELSE "executed"

\* EntryPoint.handleOps with one operation of the account that names the paymaster;
\* the operation carries the account's current nonce and a valid account signature
HandleOps(callData, maxCost, variant, junk) ==
    LET status == HandleOpsStatus(callData, maxCost, variant, junk)
    IN /\ revision \in ValidatingRevisions
       /\ nonce < MaxNonce
       /\ IF status = "executed"
          THEN /\ nonce' = nonce + 1
               /\ userCalls' = userCalls + 1
               /\ deposit' = deposit - maxCost
               /\ auth' = [auth EXCEPT !.sponsored = @ + 1]
          ELSE UNCHANGED <<nonce, userCalls, deposit, auth>>
       /\ UNCHANGED <<routeCalls, initialized, beneficiaryBalance, revision, owner, verifyingSigner, maxAllowedGasCost, now, ticks>>

\* ---------------------------------------------------------------- setters
\* variant: the setter without the onlyOwner modifier
setVerifyingSignerByAnyone(caller, newSigner) ==
    /\ revision \in {"legacy", "v07", "v08"}
    /\ verifyingSigner' = newSigner
    /\ UNCHANGED <<routeCalls, initialized, beneficiaryBalance, revision, owner, maxAllowedGasCost, now, ticks, nonce, userCalls,
                   deposit, auth>>

\* setVerifyingSigner(_verifyingSigner) external onlyOwner
setVerifyingSigner(caller, newSigner) ==
    /\ revision \in ValidatingRevisions
    /\ verifyingSigner' = IF caller = owner THEN newSigner ELSE verifyingSigner
    /\ UNCHANGED <<routeCalls, initialized, beneficiaryBalance, revision, owner, maxAllowedGasCost, now, ticks, nonce, userCalls,
                   deposit, auth>>

\* the require statements of MyPaymasterSigner.setMaxAllowedGasCost
GasCostLimitOk(newLimit) == newLimit > 0 /\ newLimit <= MaxGasCostCeiling

\* SignatureVerifyingPaymasterV07.setMaxAllowedGasCost / MyPaymasterSigner.setMaxAllowedGasCost
setMaxAllowedGasCost(caller, newLimit) ==
    /\ revision \in {"v07", "mps"}
    /\ maxAllowedGasCost' =
           IF caller = owner /\ (revision = "mps" => GasCostLimitOk(newLimit))
           THEN newLimit ELSE maxAllowedGasCost
    /\ UNCHANGED <<routeCalls, initialized, beneficiaryBalance, revision, owner, verifyingSigner, now, ticks, nonce, userCalls,
                   deposit, auth>>

\* SignatureVerifyingPaymasterV08.setCallGasLimit
setCallGasLimit(caller, newLimit) ==
    /\ revision = "v08"
    /\ maxAllowedGasCost' = IF caller = owner THEN newLimit ELSE maxAllowedGasCost
    /\ UNCHANGED <<routeCalls, initialized, beneficiaryBalance, revision, owner, verifyingSigner, now, ticks, nonce, userCalls,
                   deposit, auth>>

\* the events a setter call emits, as a function of the state before the call
ChangeRecord(event, old, new) == [event |-> event, old |-> old, new |-> new]

\* setVerifyingSigner: emit VerifyingSignerUpdated(oldSigner, _verifyingSigner) in the
\* V07 and V08 contracts; the plain-scheme contract emits nothing
setVerifyingSignerEvents(caller, newSigner) ==
    IF caller = owner /\ revision \in {"v07", "v08"}
    THEN << ChangeRecord("VerifyingSignerUpdated", verifyingSigner, newSigner) >>
    ELSE <<>>

\* setMaxAllowedGasCost: emit MaxAllowedGasCostUpdated(oldLimit, _maxAllowedGasCost) in
\* the V07 contract; MyPaymasterSigner emits nothing
setMaxAllowedGasCostEvents(caller, newLimit) ==
    IF caller = owner /\ revision = "v07"
    THEN << ChangeRecord("MaxAllowedGasCostUpdated", maxAllowedGasCost, newLimit) >>
    ELSE <<>>

\* SignatureVerifyingPaymasterV08.setCallGasLimit has no emit statement
setCallGasLimitEvents(caller, newLimit) == <<>>

\* ------------------------------------------------------ setup and funds
\* variant: initialize without the initializer modifier
initializeAgain(caller, _verifyingSigner, _owner) ==
    /\ revision \in {"v07", "v08"}
    /\ initialized' = TRUE
    /\ verifyingSigner' = _verifyingSigner
    /\ maxAllowedGasCost' = IF revision = "v07" THEN DefaultMaxAllowedGasCost
                            ELSE DefaultCallGasLimit
    /\ owner' = _owner
    /\ UNCHANGED <<routeCalls, beneficiaryBalance, revision, now, ticks, nonce, userCalls, deposit,
                   auth>>

\* initialize(_verifyingSigner, _owner) public initializer, on the clone or proxy
initialize(caller, _verifyingSigner, _owner) ==
    /\ revision \in {"v07", "v08"}
    /\ IF ~initialized
       THEN /\ initialized' = TRUE
            /\ verifyingSigner' = _verifyingSigner
            /\ maxAllowedGasCost' = IF revision = "v07" THEN DefaultMaxAllowedGasCost
                                    ELSE DefaultCallGasLimit
            /\ owner' = _owner
       ELSE UNCHANGED <<routeCalls, initialized, verifyingSigner, maxAllowedGasCost, owner>>
    /\ UNCHANGED <<routeCalls, beneficiaryBalance, revision, now, ticks, nonce, userCalls, deposit,
                   auth>>

\* entryPoint.depositTo{value: amount}(address(paymaster)); the guard bounds the funds
depositTo(amount) ==
    /\ deposit + beneficiaryBalance + amount <= MaxDeposit + 1
    /\ deposit' = deposit + amount
    /\ UNCHANGED <<routeCalls, initialized, beneficiaryBalance, revision, owner, verifyingSigner,
                   maxAllowedGasCost, now, ticks, nonce, userCalls, auth>>

\* variant: the beneficiary is paid and the deposit is not debited
withdrawToKeepsDeposit(caller, amount) ==
    /\ revision \in ValidatingRevisions
    /\ IF caller = owner /\ amount <= deposit
       THEN beneficiaryBalance' = beneficiaryBalance + amount
       ELSE UNCHANGED beneficiaryBalance
    /\ UNCHANGED <<routeCalls, deposit, initialized, revision, owner, verifyingSigner, maxAllowedGasCost, now,
                   ticks, nonce, userCalls, auth>>

\* variant: the withdrawal without the onlyOwner modifier
withdrawToByAnyone(caller, amount) ==
    /\ revision \in ValidatingRevisions
    /\ IF amount <= deposit
       THEN /\ deposit' = deposit - amount
            /\ beneficiaryBalance' = beneficiaryBalance + amount
       ELSE UNCHANGED <<deposit, beneficiaryBalance>>
    /\ UNCHANGED <<routeCalls, initialized, revision, owner, verifyingSigner, maxAllowedGasCost, now, ticks,
                   nonce, userCalls, auth>>

\* paymaster.withdrawTo(beneficiary, amount): onlyOwner, then the entry point pays out
withdrawTo(caller, amount) ==
    /\ revision \in ValidatingRevisions
    /\ IF caller = owner /\ amount <= deposit
       THEN /\ deposit' = deposit - amount
            /\ beneficiaryBalance' = beneficiaryBalance + amount
       ELSE UNCHANGED <<deposit, beneficiaryBalance>>
    /\ UNCHANGED <<routeCalls, initialized, revision, owner, verifyingSigner, maxAllowedGasCost, now,
                   ticks, nonce, userCalls, auth>>

\* ------------------------------------------------------------------- next
SignWindows == {<<now + 3600, now - 10>>, <<now + 30, now + 1>>}
NewSigners == {TrustedSigner, InvalidSigner}
NewLimits == {0, 1}
Junk == {"revert", "garbage"}

Next ==
    \/ \E d \in TickSteps : Tick(d)
    \/ \E c \in CallDatas : RelaySign(nonce, c)
    \/ \E k \in SignerKeys, w \in SignWindows, c \in CallDatas :
           DirectSign(k, w[1], w[2], nonce, c)
    \/ \E c \in CallDatas, m \in 0..MaxCost, x \in Variants, j \in Junk :
           HandleOps(c, m, x, j)
    \/ \E caller \in Callers, s \in NewSigners : setVerifyingSigner(caller, s)
    \/ \E caller \in Callers, l \in NewLimits : setMaxAllowedGasCost(caller, l)
    \/ \E caller \in Callers, l \in NewLimits : setCallGasLimit(caller, l)

Spec == Init /\ [][Next]_vars

\* ------------------------------------------------- codec specification
\* The encoder and the decoder applied to sampled windows and to byte strings of
\* every length up to MaxExtra bytes past a complete paymasterData.
MaxExtra == 2
CodecTimes == {0, 255, 4600, 16777216}

\* relay.ts (v0.8 backend): createPaymasterData(validAfter, validUntil, signature)
EncodeV08(validAfter, validUntil) ==
    /\ auth' = [NoAuth EXCEPT !.scheme = "v08layout", !.validUntil = validUntil,
                              !.validAfter = validAfter,
                              !.paymasterData =
                                  hexToBytes(createPaymasterDataV08(validAfter, validUntil,
                                                                    SignedSigHex))]
    /\ UNCHANGED <<routeCalls, initialized, beneficiaryBalance, revision, owner, verifyingSigner, maxAllowedGasCost, now, ticks,
                   nonce, userCalls, deposit>>

\* a caller cuts the paymasterData short
Truncate(len) ==
    /\ auth.scheme \in {"contract", "v08layout"}
    /\ len < Len(auth.paymasterData)
    /\ auth' = [auth EXCEPT !.scheme = "cut",
                            !.paymasterData = SubSeq(auth.paymasterData, 1, len)]
    /\ UNCHANGED <<routeCalls, initialized, beneficiaryBalance, revision, owner, verifyingSigner, maxAllowedGasCost, now, ticks,
                   nonce, userCalls, deposit>>

\* a caller appends bytes to the paymasterData
Extend(n) ==
    /\ auth.scheme \in {"contract", "v08layout"}
    /\ auth' = [auth EXCEPT !.scheme = "padded",
                            !.paymasterData = auth.paymasterData \o [i \in 1..n |-> <<2, 0>>]]
    /\ UNCHANGED <<routeCalls, initialized, beneficiaryBalance, revision, owner, verifyingSigner, maxAllowedGasCost, now, ticks,
                   nonce, userCalls, deposit>>

CodecInit == Init /\ revision \in ValidatingRevisions

CodecNext ==
    \/ \E k \in SignerKeys, vu \in CodecTimes, va \in CodecTimes :
           DirectSign(k, vu, va, nonce, 1)
    \/ \E vu \in CodecTimes, va \in CodecTimes : EncodeV08(va, vu)
    \/ \E len \in 0..(12 + SigLen) : Truncate(len)
    \/ \E n \in 1..MaxExtra : Extend(n)

SpecCodec == CodecInit /\ [][CodecNext]_vars

\* ------------------------------------------------ configuration specification
\* The life of one clone of the contract, from deployment (before initialize) on.
Amounts == 1..(MaxDeposit + 1)

ConfigInit ==
    /\ revision \in {"v07", "v08"}
    /\ initialized = FALSE
    /\ owner = ZeroAddress
    /\ verifyingSigner = ZeroAddress
    /\ maxAllowedGasCost = 0
    /\ now = StartTime
    /\ ticks = 0
    /\ nonce = 0
    /\ userCalls = 0
    /\ deposit = 0
    /\ auth = NoAuth
    /\ beneficiaryBalance = 0
    /\ routeCalls = << >>

ConfigNext ==
    \/ \E caller \in Callers, s \in SignerKeys, o \in Callers : initialize(caller, s, o)
    \/ \E caller \in Callers, s \in NewSigners : setVerifyingSigner(caller, s)
    \/ \E caller \in Callers, l \in NewLimits : setMaxAllowedGasCost(caller, l)
    \/ \E caller \in Callers, l \in NewLimits : setCallGasLimit(caller, l)
    \/ \E a \in Amounts : depositTo(a)
    \/ \E caller \in Callers, a \in Amounts : withdrawTo(caller, a)

SpecConfig == ConfigInit /\ [][ConfigNext]_vars

\* ------------------------------------------------ signing service specification
\* The JSON-RPC handlers of the three generations of the signing backend.  The
\* response of the most recent request is kept in `auth`; an error response has
\* the scheme "error" and carries no paymasterData.
\* SSVPaymaster.sol MyPaymasterSigner constructor: EIP712("PaymasterSigner", "1")
MyPaymasterSignerDomain == [name |-> "PaymasterSigner", version |-> "1"]

UserOperationRequestType ==
    "UserOperationRequest(address sender,uint256 nonce,bytes32 initCode,bytes32 callData,bytes32 accountGasLimits,uint256 preVerificationGas,bytes32 gasFees,uint256 paymasterVerificationGasLimit,uint256 paymasterPostOpGasLimit,uint48 validAfter,uint48 validUntil)"

\* relay.ts (v0.8 backend) PAYMASTER_VERSION
PAYMASTER_VERSION_V08 == "1"

\* relay.ts (v0.8 backend) generatePaymasterSignature: the typed data signed.  The
\* operations of the model have empty initCode and zero gas fields.
relayTypedDataV08(chainId, paymasterAddress, validUntil, validAfter, userOperation, paymasterVerificationGasLimit, paymasterPostOpGasLimit) ==
    hashTypedData("SSVPaymasterECDSASigner", PAYMASTER_VERSION_V08, chainId, paymasterAddress,
                  UserOperationRequestType,
                  <<userOperation.sender, userOperation.nonce, 0,
                    keccak256(userOperation.callData), 0, 0, 0,
                    paymasterVerificationGasLimit, paymasterPostOpGasLimit,
                    validAfter, validUntil>>)

\* a response of the v0.8 backend: paymasterData laid out by its createPaymasterData
SignedV08(scheme, digest, validUntil, validAfter, sender, opNonce, callData) ==
    [key |-> TrustedSigner, scheme |-> scheme, digest |-> digest, validUntil |-> validUntil,
     validAfter |-> validAfter, sender |-> sender, nonce |-> opNonce, callData |-> callData,
     paymasterData |-> hexToBytes(createPaymasterDataV08(validAfter, validUntil, SignedSigHex)),
     sponsored |-> 0]

\* relay.ts handleSbcMethod, pm_getPaymasterStubData: typed data over placeholder
\* sender, nonce and calldata hash, signed by the trusted signer
RelayStub ==
    LET currentTimestamp == now
        validAfter == currentTimestamp
        validUntil == currentTimestamp + 3600
        placeholderNonce == 0
        placeholderCalldataHash == 0
        digest == relayTypedData(ChainId, Paymaster, validUntil, validAfter, ZeroAddress,
                                 placeholderNonce, placeholderCalldataHash)
    IN /\ auth' = Signed(TrustedSigner, "stub", digest, validUntil, validAfter, ZeroAddress,
                         placeholderNonce, 0)
       /\ UNCHANGED <<routeCalls, initialized, beneficiaryBalance, revision, owner, verifyingSigner,
                      maxAllowedGasCost, now, ticks, nonce, userCalls, deposit>>

\* the JSON-RPC error object createSbcRpcHandler answers with
RpcErrorResponse == [NoAuth EXCEPT !.scheme = "error"]

RpcMethods == {"pm_getPaymasterData", "pm_sponsorUserOperation", "pm_getPaymasterStubData",
               "eth_chainId"}
\* the awaited backend call that rejects, if any
Failures == {"none", "getChainId", "signTypedData"}

\* variant: a failed signing is answered with paymasterData that nobody signed
rpcHandlerWithFallbackData(method, opNonce, callData, failing) ==
    IF method = "eth_chainId"
    THEN /\ auth' = RpcErrorResponse
         /\ UNCHANGED <<routeCalls, initialized, beneficiaryBalance, revision, owner, verifyingSigner,
                        maxAllowedGasCost, now, ticks, nonce, userCalls, deposit>>
    ELSE IF failing # "none"
    THEN /\ auth' = [NoAuth EXCEPT !.scheme = "relay", !.validUntil = now + 3600,
                                   !.validAfter = now - 10, !.sender = Account,
                                   !.nonce = opNonce, !.callData = callData,
                                   !.paymasterData =
                                       hexToBytes(createPaymasterData(now + 3600, now - 10, <<>>))
                                           \o JunkSigBytes]
         /\ UNCHANGED <<routeCalls, initialized, beneficiaryBalance, revision, owner, verifyingSigner,
                        maxAllowedGasCost, now, ticks, nonce, userCalls, deposit>>
    ELSE IF method = "pm_getPaymasterStubData" THEN RelayStub
    ELSE RelaySign(opNonce, callData)

\* relay.ts createSbcRpcHandler around handleSbcMethod: an unsupported method and
\* a rejected getChainId or signTypedData are thrown, caught and answered with an
\* error object; otherwise the result of the method is the response
createSbcRpcHandler(method, opNonce, callData, failing) ==
    IF method = "eth_chainId" \/ failing # "none"
    THEN /\ auth' = RpcErrorResponse
         /\ UNCHANGED <<routeCalls, initialized, beneficiaryBalance, revision, owner, verifyingSigner,
                        maxAllowedGasCost, now, ticks, nonce, userCalls, deposit>>
    ELSE IF method = "pm_getPaymasterStubData" THEN RelayStub
    ELSE RelaySign(opNonce, callData)

\* relay.ts (v0.8 backend) handleSbcMethodV08: signs the operation with the paymaster
\* gas limits 100000 / 50000 and, when estimating, again with 120000 / 50000
handleSbcMethodV08(opNonce, callData, estimateGas) ==
    LET currentTimestamp == now
        validAfter == currentTimestamp - 10
        validUntil == currentTimestamp + 3600
        userOperation == [sender |-> Account, nonce |-> opNonce, callData |-> callData]
        payVerGas == IF estimateGas THEN 120000 ELSE 100000
        payPostOpGas == 50000
        digest == relayTypedDataV08(ChainId, Paymaster, validUntil, validAfter, userOperation,
                                    payVerGas, payPostOpGas)
    IN /\ auth' = SignedV08("relayV08", digest, validUntil, validAfter, Account, opNonce,
                            callData)
       /\ UNCHANGED <<routeCalls, initialized, beneficiaryBalance, revision, owner, verifyingSigner,
                      maxAllowedGasCost, now, ticks, nonce, userCalls, deposit>>

\* relay.ts (v0.8 backend) handleSbcMethod, pm_getPaymasterStubData: signs the
\* operation it was sent with the paymaster gas limits 120000 / 60000
RelayStubV08(opNonce, callData) ==
    LET currentTimestamp == now
        validAfter == currentTimestamp - 10
        validUntil == currentTimestamp + 3600
        userOperation == [sender |-> Account, nonce |-> opNonce, callData |-> callData]
        payVerGas == 120000
        payPostOpGas == 60000
        digest == relayTypedDataV08(ChainId, Paymaster, validUntil, validAfter, userOperation,
                                    payVerGas, payPostOpGas)
    IN /\ auth' = SignedV08("stubV08", digest, validUntil, validAfter, Account, opNonce,
                            callData)
       /\ UNCHANGED <<routeCalls, initialized, beneficiaryBalance, revision, owner, verifyingSigner,
                      maxAllowedGasCost, now, ticks, nonce, userCalls, deposit>>

\* plain-scheme backend handleSbcMethodV07: reads getHash from the contract for the
\* sender of the operation and signs it with signMessage
PlainSign(opNonce, callData) ==
    LET currentTimestamp == now
        validAfter == currentTimestamp
        validUntil == currentTimestamp + 3600
        senderAddress == Account
        contractHash == getHashLegacy(validUntil, validAfter, Paymaster, senderAddress)
    IN /\ auth' = Signed(TrustedSigner, "plain", toEthSignedMessageHash(contractHash),
                         validUntil, validAfter, senderAddress, opNonce, callData)
       /\ UNCHANGED <<routeCalls, initialized, beneficiaryBalance, revision, owner, verifyingSigner,
                      maxAllowedGasCost, now, ticks, nonce, userCalls, deposit>>

\* variant: the stub is signed for the sender of the operation
PlainStubForSender ==
    LET currentTimestamp == now
        validAfter == currentTimestamp
        validUntil == currentTimestamp + 3600
        calculatedUserOpHash == getHashLegacy(validUntil, validAfter, Paymaster, Account)
    IN /\ auth' = Signed(TrustedSigner, "plainStub",
                         toEthSignedMessageHash(calculatedUserOpHash),
                         validUntil, validAfter, ZeroAddress, 0, 0)
       /\ UNCHANGED <<routeCalls, initialized, beneficiaryBalance, revision, owner, verifyingSigner,
                      maxAllowedGasCost, now, ticks, nonce, userCalls, deposit>>

\* plain-scheme backend, pm_getPaymasterStubData: getHash for the zero address
PlainStub ==
    LET currentTimestamp == now
        validAfter == currentTimestamp
        validUntil == currentTimestamp + 3600
        zeroAddress == ZeroAddress
        calculatedUserOpHash == getHashLegacy(validUntil, validAfter, Paymaster, zeroAddress)
    IN /\ auth' = Signed(TrustedSigner, "plainStub",
                         toEthSignedMessageHash(calculatedUserOpHash),
                         validUntil, validAfter, zeroAddress, 0, 0)
       /\ UNCHANGED <<routeCalls, initialized, beneficiaryBalance, revision, owner, verifyingSigner,
                      maxAllowedGasCost, now, ticks, nonce, userCalls, deposit>>

OpNonces == 0..MaxNonce
StubSchemes == {"stub", "stubV08", "plainStub"}
ServiceSchemes == {"relay", "relayV08", "plain"} \cup StubSchemes

RelayInit == Init /\ revision \in ValidatingRevisions

RelayNext ==
    \/ \E d \in TickSteps : Tick(d)
    \/ \E m \in RpcMethods, n \in OpNonces, c \in CallDatas, f \in Failures :
           createSbcRpcHandler(m, n, c, f)
    \/ \E n \in OpNonces, c \in CallDatas, e \in BOOLEAN : handleSbcMethodV08(n, c, e)
    \/ \E n \in OpNonces, c \in CallDatas : RelayStubV08(n, c)
    \/ \E n \in OpNonces, c \in CallDatas : PlainSign(n, c)
    \/ PlainStub

SpecRelay == RelayInit /\ [][RelayNext]_vars

\* ---- the v0.8 handler's response, as values
\* gas fields a request can carry (0: the field is zero, JavaScript's falsy 0n)
GasInputs == {0, 90000, 120000}

GasOperations ==
    [verificationGasLimit : GasInputs, callGasLimit : {0, 120000},
     preVerificationGas : {0, 60000}]

\* a || b on bigint values
OrElse(a, b) == IF a = 0 THEN b ELSE a

\* relay.ts handleSbcMethodV08: the message values that the last call of
\* generatePaymasterSignature covered (the call whose signature is returned)
handleSbcMethodV08Signed(userOperation, estimateGas, currentTimestamp) ==
    LET validAfter == currentTimestamp - 10
        validUntil == currentTimestamp + 3600
        payVerGasInitial == 100000
        payPostOpGas == 50000
        estimatedPayVer == OrElse(120000, payVerGasInitial)
        payVerGas == IF estimateGas /\ estimatedPayVer # payVerGasInitial
                     THEN estimatedPayVer ELSE payVerGasInitial
    IN [paymasterVerificationGasLimit |-> payVerGas,
        paymasterPostOpGasLimit |-> payPostOpGas,
        verificationGasLimit |-> userOperation.verificationGasLimit,
        callGasLimit |-> userOperation.callGasLimit,
        preVerificationGas |-> userOperation.preVerificationGas,
        validAfter |-> validAfter,
        validUntil |-> validUntil]

\* relay.ts handleSbcMethodV08: the returned object (the window as the bytes of
\* paymasterData carry it)
handleSbcMethodV08Result(userOperation, estimateGas, currentTimestamp) ==
    LET validAfter == currentTimestamp - 10
        validUntil == currentTimestamp + 3600
        payVerGasInitial == 100000
        payPostOpGas == 50000
        gasEstimates == [preVerificationGas |-> 60000, verificationGasLimit |-> 600000,
                         callGasLimit |-> 120000, paymasterVerificationGasLimit |-> 120000,
                         paymasterPostOpGasLimit |-> 60000]
        estimatedPayVer == OrElse(gasEstimates.paymasterVerificationGasLimit, payVerGasInitial)
        payVerGas == IF estimateGas /\ estimatedPayVer # payVerGasInitial
                     THEN estimatedPayVer ELSE payVerGasInitial
        paymasterData == hexToBytes(createPaymasterDataV08(validAfter, validUntil,
                                                           SignedSigHex))
    IN IF estimateGas
       THEN [preVerificationGas |-> gasEstimates.preVerificationGas,
             callGasLimit |-> gasEstimates.callGasLimit,
             paymasterVerificationGasLimit |-> payVerGas,
             paymasterPostOpGasLimit |->
                 OrElse(gasEstimates.paymasterPostOpGasLimit, payPostOpGas),
             verificationGasLimit |-> gasEstimates.verificationGasLimit,
             paymaster |-> Paymaster,
             paymasterData |-> paymasterData]
       ELSE [preVerificationGas |-> OrElse(userOperation.preVerificationGas, 60000),
             callGasLimit |-> OrElse(userOperation.callGasLimit, 120000),
             paymasterVerificationGasLimit |-> payVerGas,
             paymasterPostOpGasLimit |-> payPostOpGas,
             verificationGasLimit |-> OrElse(userOperation.verificationGasLimit, 600000),
             paymaster |-> Paymaster,
             paymasterData |-> paymasterData]

\* relay.ts handleSbcMethod, pm_prepareUserOperation: the gas values of the
\* operation it returns, all taken from handleSbcMethodV08(..., true)
prepareUserOperation(userOperation, currentTimestamp) ==
    LET result == handleSbcMethodV08Result(userOperation, TRUE, currentTimestamp)
    IN [verificationGasLimit |-> result.verificationGasLimit,
        callGasLimit |-> result.callGasLimit,
        preVerificationGas |-> result.preVerificationGas,
        paymasterVerificationGasLimit |-> result.paymasterVerificationGasLimit,
        paymasterPostOpGasLimit |-> result.paymasterPostOpGasLimit,
        paymasterData |-> result.paymasterData]

\* ---- the RPC handler's response, as a value
\* ValidationErrors.InvalidFields, the code of every RpcError thrown by handleSbcMethod
InvalidFields == -32602

RequestIds == {1, 2}

\* what a rejected backend call throws: an error with or without a code member
ThrownErrors == {[hasCode |-> FALSE, code |-> 0], [hasCode |-> TRUE, code |-> -32000],
                 [hasCode |-> TRUE, code |-> 0]}

\* relay.ts handleSbcMethod: what the method returns or throws (signs: a signature
\* was requested from the trusted signer's wallet)
handleSbcMethodOutcome(method, paramsOk, entryPointOk, failing, thrown) ==
    LET rpcError(message) == [thrown |-> TRUE, signs |-> FALSE, message |-> message,
                              hasCode |-> TRUE, code |-> InvalidFields, result |-> << >>]
        currentTimestamp == now
        stub == method = "pm_getPaymasterStubData"
        validAfter == IF stub THEN currentTimestamp ELSE currentTimestamp - 10
        validUntil == currentTimestamp + 3600
    IN IF method \notin {"pm_getPaymasterStubData", "pm_getPaymasterData",
                         "pm_sponsorUserOperation", "eth_estimateUserOperationGas"}
       THEN rpcError("Attempted to call an unknown method")
       ELSE IF ~paramsOk THEN rpcError("fromZodError")
       ELSE IF ~entryPointOk THEN rpcError("EntryPoint not supported")
       ELSE IF failing # "none"
            THEN [thrown |-> TRUE, signs |-> failing = "signTypedData", message |-> failing,
                  hasCode |-> thrown.hasCode, code |-> thrown.code, result |-> << >>]
       ELSE [thrown |-> FALSE, signs |-> TRUE, message |-> "", hasCode |-> FALSE, code |-> 0,
             result |-> hexToBytes(createPaymasterData(validUntil, validAfter,
                                                       SignedSigHex))]

\* variant: the catch block answers every error with the default code
rpcResponseWithDefaultCode(id, method, paramsOk, entryPointOk, failing, thrown) ==
    LET out == handleSbcMethodOutcome(method, paramsOk, entryPointOk, failing, thrown)
    IN IF out.thrown
       THEN [jsonrpc |-> "2.0", id |-> id,
             error |-> [message |-> out.message, code |-> -32603]]
       ELSE [jsonrpc |-> "2.0", id |-> id, result |-> out.result]

\* relay.ts createSbcRpcHandler: the object returned for a body that satisfies
\* jsonRpcSchema
rpcResponse(id, method, paramsOk, entryPointOk, failing, thrown) ==
    LET out == handleSbcMethodOutcome(method, paramsOk, entryPointOk, failing, thrown)
    IN IF out.thrown
       THEN [jsonrpc |-> "2.0", id |-> id,
             error |-> [message |-> out.message,
                        code |-> IF out.hasCode THEN out.code ELSE -32603]]
       ELSE [jsonrpc |-> "2.0", id |-> id, result |-> out.result]

\* ---- the HTTP route POST /v1/:chain/rpc, as the sequence of its effects
Chains == {"baseSepolia", "base", "localhost", "hardhat", "mainnet"}

\* what the process environment and the chain provide
Environments == {"complete", "noRpcUrl", "noBundlerUrl", "notDeployed"}

\* helpers/utils.ts isChainSupported
isChainSupported(chain) ==
    chain = "baseSepolia" \/ chain = "base" \/ chain = "localhost" \/ chain = "hardhat"

\* helpers/utils.ts getRPCUrl / getBundlerUrl: the configured URL, undefined when
\* the variable is not set, and a throw for any other chain name
getRPCUrl(chain, env) ==
    IF chain = "baseSepolia" \/ chain = "base" \/ chain = "localhost" \/ chain = "hardhat"
    THEN (IF env = "noRpcUrl" THEN "undefined" ELSE "url")
    ELSE "throw"

getBundlerUrl(chain, env) ==
    IF chain = "baseSepolia" \/ chain = "base" \/ chain = "localhost" \/ chain = "hardhat"
    THEN (IF env = "noBundlerUrl" THEN "undefined" ELSE "url")
    ELSE "throw"

\* routes/index.ts setupHandler: "handler" when it returns the RPC handler,
\* "throw" when it throws
setupHandler(chain, env) ==
    IF getRPCUrl(chain, env) \in {"throw", "undefined"} THEN "throw"
    ELSE IF getBundlerUrl(chain, env) \in {"throw", "undefined"} THEN "throw"
    ELSE IF env = "notDeployed" THEN "throw"
    ELSE "handler"

\* routes/index.ts, the POST /rpc handler: the calls it makes, in order
\* (bodyParses: the request body satisfies jsonRpcSchema)
postRpc(chain, env, bodyParses) ==
    LET unsupported == IF ~isChainSupported(chain) THEN << "send400" >> ELSE << >>
        handled == IF setupHandler(chain, env) = "handler"
                   THEN << "setupHandler", "rpcHandler",
                           IF bodyParses THEN "sendRpcResponse" ELSE "sendThrownError" >>
                   ELSE << "setupHandler", "send500" >>
    IN unsupported \o handled

\* routes/index.ts, the POST /rpc handler serving one request
postRpcRequest(chain, env, bodyParses) ==
    /\ routeCalls' = postRpc(chain, env, bodyParses)
    /\ UNCHANGED <<initialized, beneficiaryBalance, revision, owner, verifyingSigner,
                   maxAllowedGasCost, now, ticks, nonce, userCalls, deposit, auth>>

\* ------------------------------------------------ service specification
\* Signing requests to the backends, configuration updates by the owner and a
\* stranger, and the clock; validations are the calls of validate on the state.
\* A backend that signs the digest of the deployed contract does so with the
\* window policy of handleSbcMethodV07.
ServiceInit == Init /\ revision \in ValidatingRevisions

ServiceNext ==
    \/ \E d \in TickSteps : Tick(d)
    \/ \E m \in RpcMethods, n \in OpNonces, c \in CallDatas :
           createSbcRpcHandler(m, n, c, "none")
    \/ \E n \in OpNonces, c \in CallDatas : PlainSign(n, c)
    \/ PlainStub
    \/ \E k \in SignerKeys, n \in OpNonces, c \in CallDatas :
           DirectSign(k, now + 3600, now - 10, n, c)
    \/ \E caller \in Callers, s \in NewSigners : setVerifyingSigner(caller, s)
    \/ \E caller \in Callers, l \in NewLimits : setMaxAllowedGasCost(caller, l)
    \/ \E caller \in Callers, l \in NewLimits : setCallGasLimit(caller, l)

SpecService == ServiceInit /\ [][ServiceNext]_vars

\* -------------------------------------------------- funds specification
\* The funded paymaster with operations handled by the entry point while the
\* owner and a stranger withdraw and deposit.
FundsInit == Init /\ revision \in ValidatingRevisions

FundsNext ==
    \/ \E k \in SignerKeys, c \in CallDatas : DirectSign(k, now + 3600, now - 10, nonce, c)
    \/ \E c \in CallDatas, m \in 0..MaxCost, x \in Variants, j \in Junk :
           HandleOps(c, m, x, j)
    \/ \E caller \in Callers, a \in Amounts : withdrawTo(caller, a)
    \/ \E a \in Amounts : depositTo(a)

SpecFunds == FundsInit /\ [][FundsNext]_vars

\* -------------------------------------------------- route specification
\* The HTTP route in front of the signing backend.
RouteInit == Init /\ revision \in ValidatingRevisions

RouteNext ==
    \/ \E chain \in Chains, env \in Environments, b \in BOOLEAN : postRpcRequest(chain, env, b)
    \/ \E m \in RpcMethods, n \in OpNonces, c \in CallDatas :
           createSbcRpcHandler(m, n, c, "none")
    \/ \E d \in TickSteps : Tick(d)

SpecRoute == RouteInit /\ [][RouteNext]_vars

\* ================================================================ claims
Costs == 0..MaxCost

\* the window held in the first 12 bytes of a paymasterData
WindowBytes(data) ==
    [validUntil |-> BigEndian(Slice(data, 0, 6)), validAfter |-> BigEndian(Slice(data, 6, 12))]

\* the authorization in `auth` carries a signature by the configured signer over
\* the digest the deployed contract computes
SignedByVerifier == auth.scheme = "contract" /\ auth.key = verifyingSigner

\* C1: whenever validate returns, accepting or with the signature-failed
\* indication, the validAfter and validUntil it returns are exactly the values
\* held in the first 12 bytes of paymasterData; no path rewrites them.
C1_WindowReturnedAsDecoded ==
    revision \in ValidatingRevisions =>
        \A c \in CallDatas, m \in Costs, x \in Variants, j \in Junk :
            LET v == ValidateCall(nonce, c, m, x, j)
                w == WindowBytes(PaymasterDataFor(x))
            IN v.returned =>
                  /\ v.validationData.validUntil = w.validUntil
                  /\ v.validationData.validAfter = w.validAfter

\* C2: a signature made over operation A is never accepted for an operation B
\* that differs from A only in its nonce or only in its call payload: validate
\* answers SignatureRejected.
C2_SignatureBoundToOperation ==
    revision \in ValidatingRevisions /\ auth.scheme = "contract" =>
        \A n \in 0..MaxNonce, c \in CallDatas, m \in Costs, j \in Junk :
            (\/ n # auth.nonce /\ c = auth.callData
             \/ n = auth.nonce /\ c # auth.callData)
            => LET v == ValidateCall(n, c, m, "asIssued", j)
               IN v.returned => v.outcome = "SignatureRejected"

\* C3: a paymasterAndData that sponsored one executed operation sponsors no
\* other: attached to any later operation of the sender it is not executed, and
\* whenever the deposit lets the operation reach the paymaster the entry point
\* reports a paymaster signature error.
C3_NoSecondSponsorship ==
    revision = "v07" =>
        /\ auth.sponsored <= 1
        /\ auth.sponsored = 1 =>
               \A c \in CallDatas, m \in Costs, j \in Junk :
                   LET status == HandleOpsStatus(c, m, "asIssued", j)
                   IN /\ status # "executed"
                      /\ deposit >= m => status = "AA34 signature error"

\* C3 witness: the authorization sponsored an executed operation and is attached
\* again to an operation with the same call payload
C3_Witness ==
    /\ revision = "v07"
    /\ auth.sponsored = 1
    /\ userCalls = 1
    /\ nonce = auth.nonce + 1
    /\ HandleOpsStatus(auth.callData, 0, "asIssued", "garbage") = "AA34 signature error"

\* C4: a correctly signed operation whose window does not contain the current
\* time (validUntil <= now, or validAfter > now) is never sponsored: its target
\* call is not executed.
C4_OutsideWindowNotSponsored ==
    (/\ revision \in ValidatingRevisions
     /\ SignedByVerifier
     /\ (auth.validUntil <= now \/ auth.validAfter > now))
    => \A c \in CallDatas, m \in Costs, j \in Junk :
           HandleOpsStatus(c, m, "asIssued", j) # "executed"

\* C5: an authorization issued by the signing service for an operation is
\* Accepted when presented with that operation, the same paymaster and chain,
\* the unchanged verifying signer and a cost within the cap, and the returned
\* window is the signed one.
C5_IssuedAuthorizationAccepted ==
    revision = "v07" /\ auth.scheme = "relay" /\ verifyingSigner = auth.key =>
        \A m \in Costs, j \in Junk :
            m <= maxAllowedGasCost =>
                LET v == ValidateCall(auth.nonce, auth.callData, m, "asIssued", j)
                IN /\ v.outcome = "Accepted"
                   /\ v.validationData.validUntil = auth.validUntil
                   /\ v.validationData.validAfter = auth.validAfter

\* C6: when the recovered signer is not the verifying signer, validate does not
\* abort: it returns the signature-failed indication with an empty context and
\* the decoded window, and the operation is not sponsored.
C6_WrongSignerSoftFailure ==
    revision = "v07" =>
        \A c \in CallDatas, m \in Costs, x \in Variants, j \in Junk :
            LET data == PaymasterDataFor(x)
                p == parsePaymasterData(data)
                digest == ContractDigest("v07", p.validUntil, p.validAfter, Account, nonce, c)
                recovered == recover(digest, p.signature,
                                     [key |-> auth.key, digest |-> auth.digest], j)
                v == ValidateCall(nonce, c, m, x, j)
                w == WindowBytes(data)
            IN (p.err = "none" /\ ~recovered.reverted /\ recovered.addr # verifyingSigner)
               => /\ v.returned
                  /\ v.outcome = "SignatureRejected"
                  /\ v.context = NoContext
                  /\ v.validationData = packValidationData(TRUE, w.validUntil, w.validAfter)
                  /\ HandleOpsStatus(c, m, x, j) # "executed"

\* C6 witness: an authorization signed by a key that is not the verifying signer
\* is presented with its own operation and a cost above the cap
C6_Witness ==
    /\ revision = "v07"
    /\ auth.scheme = "contract"
    /\ auth.key = InvalidSigner
    /\ verifyingSigner = TrustedSigner
    /\ nonce = auth.nonce
    /\ maxAllowedGasCost = 0
    /\ ValidateCall(nonce, auth.callData, 1, "asIssued", "revert").outcome = "SignatureRejected"

\* C7: with a valid signature validate accepts at requested cost = cap and aborts
\* with CostExceeded at cap + 1, and no operation whose requested cost exceeds
\* the cap is ever Accepted.
C7_CostCapBoundary ==
    revision \in {"v07", "v08"} =>
        /\ \A c \in CallDatas, m \in Costs, x \in Variants, j \in Junk :
               m > maxAllowedGasCost => ValidateCall(nonce, c, m, x, j).outcome # "Accepted"
        /\ SignedByVerifier /\ auth.nonce = nonce =>
               \A j \in Junk :
                   /\ ValidateCall(nonce, auth.callData, maxAllowedGasCost, "asIssued", j).outcome
                          = "Accepted"
                   /\ ValidateCall(nonce, auth.callData, maxAllowedGasCost + 1, "asIssued", j).outcome
                          = "CostExceeded"

\* C7 witness: a validly signed operation is presented while the cap is below the
\* largest requested cost
C7_Witness ==
    /\ revision = "v07"
    /\ SignedByVerifier
    /\ auth.nonce = nonce
    /\ maxAllowedGasCost = 1
    /\ ValidateCall(nonce, auth.callData, 1, "asIssued", "revert").outcome = "Accepted"
    /\ ValidateCall(nonce, auth.callData, 2, "asIssued", "revert").outcome = "CostExceeded"

\* C8: decoding never fails uncontrolled.  Every paymasterData shorter than 77
\* bytes, and every one whose signature slice is not exactly 65 bytes, makes
\* validate abort with the Malformed outcome; Accepted and SignatureRejected are
\* answered only for exactly 12 + 65 bytes after the offset.
C8_MalformedDataAborts ==
    revision \in ValidatingRevisions =>
        \A c \in CallDatas, m \in Costs, x \in Variants, j \in Junk :
            LET data == PaymasterDataFor(x)
                v == ValidateCall(nonce, c, m, x, j)
            IN /\ (revision = "v07" /\ Len(data) # 12 + SigLen)
                      => (~v.returned /\ v.outcome = "Malformed")
               /\ v.outcome \in {"Accepted", "SignatureRejected"} => Len(data) = 12 + SigLen

\* C8 witness: a paymasterData one byte too long is refused for its signature
\* length and its 50-byte prefix for its total length
C8_Witness ==
    /\ revision = "v07"
    /\ auth.scheme = "padded"
    /\ Len(auth.paymasterData) = 12 + SigLen + 1
    /\ ValidateCall(nonce, 1, 0, "asIssued", "garbage").err = "InvalidSignatureLength"
    /\ ValidateCall(nonce, 1, 0, "truncated", "garbage").err = "InvalidPaymasterData"

\* C9: decoding the bytes createPaymasterData produced returns the same
\* validAfter, the same validUntil and the same signature, for either backend
\* generation's encoder.
C9_EncodeDecodeRoundTrip ==
    auth.scheme \in {"contract", "v08layout"} =>
        LET p == parsePaymasterData(auth.paymasterData)
        IN /\ p.err = "none"
           /\ p.validAfter = auth.validAfter
           /\ p.validUntil = auth.validUntil
           /\ p.signature = SignedSigBytes

\* C10: a setter called by anyone but the owner leaves owner, verifying signer
\* and cost cap unchanged; called by the owner it changes only its own field.
C10_OnlyOwnerConfigures ==
    [][/\ \A caller \in Callers, s \in NewSigners :
              setVerifyingSigner(caller, s) =>
                  /\ owner' = owner
                  /\ maxAllowedGasCost' = maxAllowedGasCost
                  /\ verifyingSigner' = IF caller = owner THEN s ELSE verifyingSigner
       /\ \A caller \in Callers, l \in NewLimits :
              (setMaxAllowedGasCost(caller, l) \/ setCallGasLimit(caller, l)) =>
                  /\ owner' = owner
                  /\ verifyingSigner' = verifyingSigner
                  /\ caller # owner => maxAllowedGasCost' = maxAllowedGasCost
                  /\ caller = owner =>
                         \/ maxAllowedGasCost' = l
                         \/ /\ revision = "mps"
                            /\ ~GasCostLimitOk(l)
                            /\ maxAllowedGasCost' = maxAllowedGasCost
      ]_vars

\* C10 witness: the owner has replaced the verifying signer and lowered the cap
C10_Witness ==
    /\ revision = "v07"
    /\ owner = Owner
    /\ verifyingSigner = InvalidSigner
    /\ maxAllowedGasCost = 1
    /\ maxAllowedGasCost # DefaultMaxAllowedGasCost

\* C11: the cost cap setter refuses zero and values above the ceiling, so that
\* in every state of an initialized paymaster 0 < maxAllowedCost <= ceiling.
C11_CapWithinBounds ==
    revision \in {"v07", "mps"} =>
        /\ 0 < maxAllowedGasCost
        /\ maxAllowedGasCost <= MaxGasCostCeiling

\* C12: the configuration becomes Active exactly once.  The first initialize
\* sets verifying signer, owner and the default cap of 0.01 ether; every later
\* initialize, by any caller, changes none of them; nothing returns the
\* configuration to Uninitialized.
C12_InitializedOnce ==
    [][/\ initialized => initialized'
       /\ \A caller \in Callers, s \in SignerKeys, o \in Callers :
              initialize(caller, s, o) =>
                  IF initialized
                  THEN /\ owner' = owner
                       /\ verifyingSigner' = verifyingSigner
                       /\ maxAllowedGasCost' = maxAllowedGasCost
                  ELSE /\ initialized'
                       /\ owner' = o
                       /\ verifyingSigner' = s
                       /\ revision = "v07" => maxAllowedGasCost' = DefaultMaxAllowedGasCost
      ]_vars

\* C12 witness: initialize has run on a fresh clone and a setter has since moved
\* the cap away from its default
C12_Witness ==
    /\ revision = "v07"
    /\ initialized
    /\ owner = Owner
    /\ verifyingSigner = TrustedSigner
    /\ maxAllowedGasCost = 1

C14_FailureGivesNoPaymasterData ==
    [][/\ \A m \in RpcMethods, n \in OpNonces, c \in CallDatas, f \in Failures \ {"none"} :
              createSbcRpcHandler(m, n, c, f) =>
                  /\ auth'.scheme = "error"
                  /\ auth'.paymasterData = <<>>
                  /\ auth'.key = ZeroAddress
       /\ auth'.paymasterData # <<>> =>
              /\ auth'.scheme \in ServiceSchemes
              /\ auth'.key = TrustedSigner
              /\ auth'.digest.wrap \in {"eip712", "eip191"}
              /\ auth'.scheme \in {"relay", "stub"} =>
                     /\ auth'.digest = relayTypedData(ChainId, Paymaster, auth'.validUntil,
                                                      auth'.validAfter, auth'.sender,
                                                      auth'.nonce,
                                                      IF auth'.scheme = "stub" THEN 0
                                                      ELSE keccak256(auth'.callData))
                     /\ auth'.paymasterData =
                            hexToBytes(createPaymasterData(auth'.validUntil, auth'.validAfter,
                                                           SignedSigHex))]_vars

\* a request has ended in an error response
C14_Witness ==
    /\ auth.scheme = "error"
    /\ auth.paymasterData = <<>>
    /\ now > StartTime

C16_DecodeSignatureCostOrder ==
    revision \in {"v07", "v08"} =>
        \A c \in CallDatas, m \in Costs, x \in Variants, j \in Junk :
            LET data == PaymasterDataFor(x)
                p == parsePaymasterData(data)
                digest == ContractDigest(revision, p.validUntil, p.validAfter, Account, nonce, c)
                recovered == recover(digest, p.signature,
                                     [key |-> auth.key, digest |-> auth.digest], j)
                v == ValidateCall(nonce, c, m, x, j)
            IN m > maxAllowedGasCost =>
                   /\ p.err # "none" => v.outcome = "Malformed"
                   /\ (p.err = "none" /\ ~recovered.reverted
                           /\ recovered.addr # verifyingSigner)
                      => v.returned /\ v.outcome = "SignatureRejected"

\* the fields and the domain a digest is rebuilt from, for the account's next
\* operation with call payload c within the window of the authorization in `auth`
DigestInputs(c) ==
    [version |-> "1", chainId |-> ChainId, self |-> Paymaster, sender |-> Account,
     nonce |-> nonce, callData |-> c]

\* the inputs with exactly one of them changed
SingleChanges(f) ==
    {[f EXCEPT !.sender = Stranger], [f EXCEPT !.nonce = @ + 1],
     [f EXCEPT !.callData = @ + 1], [f EXCEPT !.chainId = @ + 1],
     [f EXCEPT !.self = @ + 1], [f EXCEPT !.version = "2"]}

DigestOf(rev, f) ==
    ContractDigestAt(rev, f.version, f.chainId, f.self, auth.validUntil, auth.validAfter,
                     f.sender, f.nonce, f.callData)

\* C17: the digest the validator rebuilds depends on every one of its inputs: for
\* fixed other fields, changing any single one of sender, nonce, callDataHash,
\* chainId, authorizer address or protocol version yields a different digest (and
\* the unchanged inputs yield the same digest as the contract computes).
C17_DigestDependsOnEveryField ==
    revision \in ValidatingRevisions =>
        \A c \in CallDatas :
            LET f == DigestInputs(c)
            IN /\ DigestOf(revision, f) =
                      ContractDigest(revision, auth.validUntil, auth.validAfter, Account,
                                     nonce, c)
               /\ \A g \in SingleChanges(f) : DigestOf(revision, g) # DigestOf(revision, f)

\* C18: the EIP-712 domain name and version, the struct type tag and the field
\* order the signing service signs over are those the validating contract uses, so
\* that for equal field values the signer's digest equals the validator's digest:
\* the typed data of relay.ts against the digest of the deployed typed-data
\* contract, and the domain of the v0.8 backend against that of MyPaymasterSigner.
C18_SignerAndValidatorAgree ==
    /\ (revision = "v08" /\ auth.scheme = "relay") =>
           LET validator == ContractDigest("v08", auth.validUntil, auth.validAfter,
                                           auth.sender, auth.nonce, auth.callData)
           IN /\ auth.digest.name = validator.name
              /\ auth.digest.version = validator.version
              /\ auth.digest.typeTag = validator.typeTag
              /\ auth.digest.words = validator.words
              /\ auth.digest = validator
    /\ auth.scheme = "relayV08" =>
           /\ auth.digest.name = MyPaymasterSignerDomain.name
           /\ auth.digest.version = MyPaymasterSignerDomain.version

C20_WindowPolicy ==
    [][(auth' # auth /\ auth'.scheme \in ServiceSchemes) =>
           /\ auth'.validUntil = now + 3600
           /\ now - auth'.validAfter \in 1..60
           /\ auth'.validAfter < now /\ now < auth'.validUntil]_vars

C22_ValidateReadOnly ==
    [][/\ nonce' # nonce => Config' = Config
       /\ (Config' = Config /\ auth' = auth /\ revision \in ValidatingRevisions)
              => \A c \in CallDatas, m \in Costs :
                     LET before == ValidateCall(auth.nonce, c, m, "asIssued", "revert")
                         after == ValidateCall(auth.nonce, c, m, "asIssued", "revert")'
                     IN /\ after.outcome = before.outcome
                        /\ after.validationData = before.validationData
                        /\ after.context = before.context]_vars

C24_SettersEmitChangeRecord ==
    [][/\ \A caller \in Callers, s \in NewSigners :
              setVerifyingSigner(caller, s) =>
                  LET events == setVerifyingSignerEvents(caller, s)
                  IN IF caller = owner
                     THEN /\ Len(events) = 1
                          /\ events[1].old = verifyingSigner
                          /\ events[1].new = verifyingSigner'
                     ELSE events = <<>>
       /\ \A caller \in Callers, l \in NewLimits :
              setMaxAllowedGasCost(caller, l) =>
                  LET events == setMaxAllowedGasCostEvents(caller, l)
                  IN IF caller = owner /\ (revision = "mps" => GasCostLimitOk(l))
                     THEN /\ Len(events) = 1
                          /\ events[1].old = maxAllowedGasCost
                          /\ events[1].new = maxAllowedGasCost'
                     ELSE events = <<>>
       /\ \A caller \in Callers, l \in NewLimits :
              setCallGasLimit(caller, l) =>
                  LET events == setCallGasLimitEvents(caller, l)
                  IN IF caller = owner
                     THEN /\ Len(events) = 1
                          /\ events[1].old = maxAllowedGasCost
                          /\ events[1].new = maxAllowedGasCost'
                     ELSE events = <<>>]_vars

C26_SignerRotationImmediate ==
    [][\A n \in NewSigners :
          (setVerifyingSigner(owner, n) /\ n # verifyingSigner /\ auth.scheme = "contract") =>
              LET cfg == [owner |-> owner', verifyingSigner |-> verifyingSigner',
                          maxAllowedGasCost |-> maxAllowedGasCost']
                  after(m) == validate(revision, UserOp(auth.nonce, auth.callData, "asIssued"),
                                       m, cfg, [key |-> auth.key, digest |-> auth.digest],
                                       "revert", now, deposit - m)
              IN /\ cfg.verifyingSigner = n
                 /\ \A m \in Costs :
                        /\ auth.key = verifyingSigner => after(m).outcome # "Accepted"
                        /\ (auth.key = verifyingSigner /\ revision = "v07") =>
                               after(m).outcome = "SignatureRejected"
                        /\ (auth.key = n /\ revision = "v07" /\ m <= cfg.maxAllowedGasCost) =>
                               /\ after(m).outcome = "Accepted"
                               /\ after(m).validationData
                                      = packValidationData(FALSE, auth.validUntil,
                                                           auth.validAfter)]_vars

\* the signer has been rotated while an authorization of the previous signer is
\* still inside its window: it is rejected now
C26_Witness ==
    /\ revision = "v07"
    /\ verifyingSigner = InvalidSigner
    /\ auth.scheme = "contract"
    /\ auth.key = TrustedSigner
    /\ auth.validAfter < now /\ now < auth.validUntil
    /\ ValidateCall(auth.nonce, auth.callData, 0, "asIssued", "revert").outcome
           = "SignatureRejected"

\* C27: in the v0.8 signing handler every returned value that the signed message
\* covers (paymasterVerificationGasLimit, paymasterPostOpGasLimit,
\* verificationGasLimit, callGasLimit, preVerificationGas, validAfter, validUntil)
\* equals the value passed to generatePaymasterSignature for the returned
\* signature, with and without gas estimation and in pm_prepareUserOperation.
C27_ReturnedEqualsSigned ==
    \A op \in GasOperations, e \in BOOLEAN :
        LET signed == handleSbcMethodV08Signed(op, e, now)
            result == handleSbcMethodV08Result(op, e, now)
            prepared == prepareUserOperation(op, now)
            signedForPrepared == handleSbcMethodV08Signed(op, TRUE, now)
            Same(r, sg) ==
                /\ r.paymasterVerificationGasLimit = sg.paymasterVerificationGasLimit
                /\ r.paymasterPostOpGasLimit = sg.paymasterPostOpGasLimit
                /\ r.verificationGasLimit = sg.verificationGasLimit
                /\ r.callGasLimit = sg.callGasLimit
                /\ r.preVerificationGas = sg.preVerificationGas
                /\ BigEndian(Slice(r.paymasterData, 0, 6)) = sg.validAfter
                /\ BigEndian(Slice(r.paymasterData, 6, 12)) = sg.validUntil
        IN Same(result, signed) /\ Same(prepared, signedForPrepared)

\* C28: each POST /v1/:chain/rpc request is answered exactly once: for an
\* unsupported chain the handler sends the 400 response and then neither sets up
\* a handler, signs, nor sends a second response; for a supported chain exactly
\* one of the RPC result and the 500 error is sent.
C28_AnsweredExactlyOnce ==
    LET Sends == {"send400", "send500", "sendRpcResponse", "sendThrownError"}
        sent == SelectSeq(routeCalls, LAMBDA e : e \in Sends)
    IN routeCalls # << >> =>
           /\ Len(sent) = 1
           /\ sent[1] = "send400" =>
                  \A i \in 1..Len(routeCalls) :
                      routeCalls[i] \notin {"setupHandler", "rpcHandler"}

\* C29: for every request body that parses as JSON-RPC the RPC handler returns an
\* object with the request's id and exactly one of result and error: any error
\* thrown while handling the method becomes an error member whose code is the
\* thrown code, or -32603 when none is set, and no signature is produced for a
\* request rejected for invalid params, unsupported entry point or unknown method.
C29_OneResultOrError ==
    \A id \in RequestIds, m \in RpcMethods, paramsOk \in BOOLEAN, entryPointOk \in BOOLEAN,
       f \in Failures, t \in ThrownErrors :
        LET out == handleSbcMethodOutcome(m, paramsOk, entryPointOk, f, t)
            resp == rpcResponse(id, m, paramsOk, entryPointOk, f, t)
            rejected == m = "eth_chainId" \/ ~paramsOk \/ ~entryPointOk
        IN /\ resp.id = id
           /\ Cardinality(DOMAIN resp \cap {"result", "error"}) = 1
           /\ ("error" \in DOMAIN resp) <=> (rejected \/ f # "none")
           /\ rejected => /\ "error" \in DOMAIN resp
                          /\ resp.error.code = InvalidFields
                          /\ ~out.signs
           /\ (~rejected /\ f # "none") =>
                  resp.error.code = (IF t.hasCode THEN t.code ELSE -32603)
           /\ (~rejected /\ f = "none") =>
                  /\ BigEndian(Slice(resp.result, 0, 6)) = now + 3600
                  /\ Slice(resp.result, 12, 12 + SigLen) = SignedSigBytes

\* the handler has answered a request with an error object: an unknown method is
\* answered with the thrown code, a rejected signing call without a code with -32603
C29_Witness ==
    /\ auth = RpcErrorResponse
    /\ now > StartTime
    /\ rpcResponse(1, "eth_chainId", TRUE, TRUE, "none",
                   [hasCode |-> FALSE, code |-> 0]).error.code = InvalidFields
    /\ rpcResponse(2, "pm_getPaymasterData", TRUE, TRUE, "signTypedData",
                   [hasCode |-> FALSE, code |-> 0]).error.code = -32603
    /\ "result" \in DOMAIN rpcResponse(2, "pm_getPaymasterData", TRUE, TRUE, "none",
                                       [hasCode |-> FALSE, code |-> 0])

\* the bits from .. from + 47 of a word, as three limbs (from is a multiple of 16)
Bits48(word, from) == << word[from \div 16], word[from \div 16 + 1], word[from \div 16 + 2] >>

\* the largest uint48
MaxUint48 == << 65535, 65535, 65535 >>

\* the windows packed in a state: the one last signed and the extreme values
PackedUntils == {Uint48Limbs(auth.validUntil), MaxUint48}
PackedAfters == {Uint48Limbs(auth.validAfter), MaxUint48, << 0, 0, 0 >>, << 1, 0, 32768 >>}

\* C30: _packValidationData is injective on (sigFailed, validUntil, validAfter):
\* for all 48-bit validUntil and validAfter the three fields occupy disjoint bit
\* ranges of the 256-bit word (bit 0, bits 160..207, bits 208..255), so unpacking
\* the word returns the same three values and sigFailed = true never alters the
\* window bits.
C30_PackInjective ==
    \A sf \in BOOLEAN, vu \in PackedUntils, va \in PackedAfters :
        LET w == packValidationDataWord(sf, vu, va)
        IN /\ w[0] = (IF sf THEN 1 ELSE 0)
           /\ \A i \in 1..9 : w[i] = 0
           /\ Bits48(w, 160) = vu
           /\ Bits48(w, 208) = va
           /\ \A i \in 1..15 : w[i] = packValidationDataWord(~sf, vu, va)[i]
           /\ \A vu2 \in PackedUntils, va2 \in {va, vu} :
                  packValidationDataWord(sf, vu2, va2) = w => (vu2 = vu /\ va2 = va)

\* a window whose fields need more than 16 bits has been signed and packs into
\* the limbs of bits 160..207 and 208..255
C30_Witness ==
    /\ auth.scheme = "contract"
    /\ auth.validUntil = 16777216
    /\ auth.validAfter = 4600
    /\ packValidationDataWord(TRUE, Uint48Limbs(auth.validUntil),
                              Uint48Limbs(auth.validAfter))
           = [i \in 0..15 |-> CASE i = 0 -> 1 [] i = 11 -> 256 [] i = 13 -> 4600
                                [] OTHER -> 0]
    /\ packValidationData(TRUE, auth.validUntil, auth.validAfter).validUntil = 16777216

====
